---- MODULE Spec2Model ----
(***************************************************************************)
(* The bootstrap/dispatch layer of the Target Process MCP server:          *)
(* configuration resolution (loadConfig), the TargetProcessServer          *)
(* constructor, the background cache warm-up, the discovery and dispatch   *)
(* request handlers with their error normalisation, and SIGINT shutdown.   *)
(*                                                                         *)
(* The repository holds two builds of the server module: src/src/server.ts *)
(* (environment variables, then a configuration file) and                  *)
(* src/unnamed/part_000 (environment variables only).  The variable build  *)
(* says which one is running; everything after loadConfig is the same code *)
(* in both.                                                                *)
(*                                                                         *)
(* Strings that are only compared are TLA+ strings; strings that are       *)
(* concatenated or searched (messages) are sequences of string pieces.     *)
(***************************************************************************)
EXTENDS Integers, Sequences, FiniteSets, Bags, TLC

VARIABLES
    build,      \* which server module is running
    env,        \* process.env: TP_DOMAIN, TP_TOKEN
    file,       \* what is at config/targetprocess.json
    pc,         \* position of the constructor
    loaded,     \* what loadConfig produced (result, filesystem calls, log lines)
    thrown,     \* the error the constructor threw, or NoError
    service,    \* this.service
    tools,      \* this.tools
    server,     \* this.server: capabilities, handlers, onerror, transport
    sigint,     \* number of SIGINT listeners installed on the process
    warmup,     \* state of the initializeCache() promise
    console,    \* lines written with console.error, oldest first
    inflight,   \* bag of dispatches suspended in "await tool.execute(...)"
    last,       \* the dispatch that completed last, with its outcome
    listed,     \* the discovery response produced last
    closing,    \* state of the SIGINT handler: "no", "closing", "closed", "failed"
    exitCode    \* process exit code, or Running

vars == <<build, env, file, pc, loaded, thrown, service, tools, server, sigint,
          warmup, console, inflight, last, listed, closing, exitCode>>

(***************************************************************************)
(* Bounds                                                                  *)
(***************************************************************************)
\* dispatches that may be suspended at the same time
MaxInflight == 2

(***************************************************************************)
(* JavaScript values                                                       *)
(***************************************************************************)
Undefined == "<undefined>"

\* JavaScript truthiness of a string-or-undefined value
Truthy(v) == v # Undefined /\ v # ""

\* text contains piece sequence msg
Contains(text, msg) ==
    \E i \in 0..(Len(text) - Len(msg)) : SubSeq(text, i + 1, i + Len(msg)) = msg

\* ErrorCode of the protocol SDK
InternalError == -32603
MethodNotFound == -32601
InvalidParams == -32602

\* new McpError(code, message): an Error whose message is prefixed by the code
McpError(code, message) ==
    [class |-> "McpError", code |-> code,
     message |-> <<"MCP error ", ToString(code), ": ">> \o message]

\* new Error(message), and the built-in errors thrown by JSON.parse, property
\* access and fs
PlainError(message) == [class |-> "Error", message |-> message]

NoError == [class |-> "none"]

\* error instanceof Error
InstanceOfError(e) == e.class \in {"McpError", "Error"}

\* error instanceof McpError
InstanceOfMcpError(e) == e.class = "McpError"

\* String(error) for the thrown values that are not Error instances
StringOf(e) ==
    CASE e.class = "String" -> e.value
      [] e.class = "Object" -> <<"[object Object]">>
      [] e.class = "Undefined" -> <<"undefined">>
      [] OTHER -> <<"Error: ">> \o e.message

\* error instanceof Error ? error.message : String(error)
MessageOrString(e) == IF InstanceOfError(e) THEN e.message ELSE StringOf(e)

(***************************************************************************)
(* Configuration                                                           *)
(***************************************************************************)
EnvValues == {Undefined, "", "acme", "tok"}

Envs == [TP_DOMAIN : EnvValues, TP_TOKEN : EnvValues]

NoCredentials == [absent |-> TRUE]

\* the JSON documents the configuration file may hold
JsonNull == [json |-> "null"]

JsonObjects ==
    { [json |-> "object", config |-> [domain |-> d, credentials |-> c]] :
        d \in {Undefined, "", "file.example"},
        c \in {NoCredentials} \cup
              { [token |-> t] : t \in {Undefined, "", "filetok"} } }

Files == { [kind |-> "missing"], [kind |-> "unreadable"], [kind |-> "malformed"] }
         \cup { [kind |-> "json", value |-> v] : v \in {JsonNull} \cup JsonObjects }

NoConfig == [none |-> TRUE]

EnvRemedy == <<"environment variables (TP_DOMAIN and TP_TOKEN)">>
FileRemedy == <<"config/targetprocess.json">>
NoConfigurationMessage ==
    <<"No configuration found. Please set ">> \o EnvRemedy \o <<" or create ">>
    \o FileRemedy
TokenRequirement == <<"Personal Access Token">>
TokenMessage ==
    <<"Configuration must provide a ">> \o TokenRequirement
    \o <<". See https://www.ibm.com/docs/en/targetprocess/tp-dev-hub/saas?topic=v1-authentication for details.">>
ParsePrefix == <<"Error parsing config file: ">>
EnvOnlyMessage ==
    <<"TP_DOMAIN and TP_TOKEN", " must be set in the MCP server environment configuration. ",
      "See https://www.ibm.com/docs/en/targetprocess/tp-dev-hub/saas?topic=v1-authentication for token details.">>

\* what the try block of loadConfig throws, or NoError
\*   fs.readFileSync fails, JSON.parse fails, config is null, no truthy token
TryBlockError(f) ==
    CASE f.kind = "unreadable" ->
            PlainError(<<"EACCES: permission denied, open config/targetprocess.json">>)
      [] f.kind = "malformed" ->
            PlainError(<<"Unexpected token in JSON">>)
      [] f.kind = "json" /\ f.value = JsonNull ->
            PlainError(<<"Cannot read properties of null (reading 'credentials')">>)
      [] f.kind = "json" /\ f.value # JsonNull
           /\ (f.value.config.credentials = NoCredentials
               \/ ~Truthy(f.value.config.credentials.token)) ->
            McpError(InternalError, TokenMessage)
      [] OTHER -> NoError

LoadResult(ok, config, error, fs, logged) ==
    [ok |-> ok, config |-> config, error |-> error, fs |-> fs, logged |-> logged]

\* a loadConfig that lets a usable configuration file win over the environment
loadConfigFileFirst(e, f) ==
    IF f.kind # "missing" /\ TryBlockError(f) = NoError
    THEN LoadResult(TRUE, f.value.config, NoError,
                    <<"existsSync", "readFileSync">>, <<>>)
    ELSE IF Truthy(e.TP_DOMAIN) /\ Truthy(e.TP_TOKEN)
    THEN LoadResult(TRUE,
                    [domain |-> e.TP_DOMAIN, credentials |-> [token |-> e.TP_TOKEN]],
                    NoError, <<"existsSync">>, <<>>)
    ELSE LoadResult(FALSE, NoConfig,
                    McpError(InternalError, NoConfigurationMessage),
                    <<"existsSync">>, <<NoConfigurationMessage>>)

\* loadConfig of src/src/server.ts
loadConfigFile(e, f) ==
    IF Truthy(e.TP_DOMAIN) /\ Truthy(e.TP_TOKEN)
    THEN LoadResult(TRUE,
                    [domain |-> e.TP_DOMAIN, credentials |-> [token |-> e.TP_TOKEN]],
                    NoError, <<>>, <<>>)
    ELSE IF f.kind = "missing"
    THEN LoadResult(FALSE, NoConfig,
                    McpError(InternalError, NoConfigurationMessage),
                    <<"existsSync">>, <<NoConfigurationMessage>>)
    ELSE IF TryBlockError(f) = NoError
    THEN LoadResult(TRUE, f.value.config, NoError,
                    <<"existsSync", "readFileSync">>, <<>>)
    ELSE LET text == ParsePrefix \o MessageOrString(TryBlockError(f))
         IN LoadResult(FALSE, NoConfig, McpError(InternalError, text),
                       <<"existsSync", "readFileSync">>, <<text>>)

\* loadConfig of src/unnamed/part_000
loadConfigEnv(e) ==
    IF ~Truthy(e.TP_DOMAIN) \/ ~Truthy(e.TP_TOKEN)
    THEN LoadResult(FALSE, NoConfig, McpError(InternalError, EnvOnlyMessage),
                    <<>>, <<>>)
    ELSE LoadResult(TRUE,
                    [domain |-> e.TP_DOMAIN, credentials |-> [token |-> e.TP_TOKEN]],
                    NoError, <<>>, <<>>)

Builds == {"server.ts", "part_000"}

loadConfig(b, e, f) == IF b = "server.ts" THEN loadConfigFile(e, f) ELSE loadConfigEnv(e)

NotLoaded == [pending |-> TRUE]

(***************************************************************************)
(* Tools, requests and responses                                           *)
(***************************************************************************)
ToolKeys == {"search", "get", "create", "update", "inspect"}

ToolClass(k) ==
    CASE k = "search" -> "SearchTool"
      [] k = "get" -> "GetEntityTool"
      [] k = "create" -> "CreateEntityTool"
      [] k = "update" -> "UpdateEntityTool"
      [] k = "inspect" -> "InspectObjectTool"

\* the tool names declared as capabilities
CapabilityNames ==
    {"search_entities", "get_entity", "create_entity", "update_entity", "inspect_object"}

\* the static getDefinition() of a tool class: the descriptor that class declares
getDefinition(class) == [definitionOf |-> class]

\* a discovery response that lists the tools only once the cache is warm
ListToolsResponseWhenWarm ==
    [tools |-> IF warmup = "ok"
               THEN <<getDefinition("SearchTool"), getDefinition("GetEntityTool"),
                      getDefinition("CreateEntityTool"), getDefinition("UpdateEntityTool"),
                      getDefinition("InspectObjectTool")>>
               ELSE <<>>]

\* the discovery handler's response
ListToolsResponse ==
    [tools |-> <<getDefinition("SearchTool"), getDefinition("GetEntityTool"),
                 getDefinition("CreateEntityTool"), getDefinition("UpdateEntityTool"),
                 getDefinition("InspectObjectTool")>>]

\* a switch whose create and update cases call each other's tool
SwitchCaseSwapped(name) ==
    CASE name = "search_entities" -> "search"
      [] name = "get_entity" -> "get"
      [] name = "create_entity" -> "update"
      [] name = "update_entity" -> "create"
      [] name = "inspect_object" -> "inspect"
      [] OTHER -> "default"

\* the switch of the dispatch handler: the key of this.tools a name selects,
\* or "default"
SwitchCase(name) ==
    CASE name = "search_entities" -> "search"
      [] name = "get_entity" -> "get"
      [] name = "create_entity" -> "create"
      [] name = "update_entity" -> "update"
      [] name = "inspect_object" -> "inspect"
      [] OTHER -> "default"

\* request.params.name and request.params.arguments of the requests sent
RequestNames == CapabilityNames \cup {"delete_entity"}
RequestArguments == {"{id: 42}"}

\* what a tool's execute may settle with: a result, or a thrown value
ToolResult == [content |-> <<[type |-> "text", text |-> <<"{Id: 42}">>]>>]

ThrownValues ==
    { McpError(InvalidParams, <<"Invalid parameters">>),
      PlainError(<<"connect ECONNREFUSED">>),
      [class |-> "Object", message |-> <<"rate limited">>],
      [class |-> "String", value |-> <<"timeout">>],
      [class |-> "Undefined"] }

ToolOutcomes ==
    {[kind |-> "resolved", value |-> ToolResult]}
    \cup { [kind |-> "rejected", error |-> e] : e \in ThrownValues }

Raised(error) == [kind |-> "raised", error |-> error]
Returned(payload) == [kind |-> "returned", payload |-> payload]

\* the error envelope built by the catch branch
ErrorEnvelope(error) ==
    [content |-> <<[type |-> "text",
                    text |-> <<"Target Process API error: ">> \o MessageOrString(error)]>>,
     isError |-> TRUE]

\* a catch branch that wraps a protocol-fatal error in a new one
CatchBranchRewrapped(error) ==
    IF InstanceOfMcpError(error)
    THEN Raised(McpError(error.code, error.message))
    ELSE Returned(ErrorEnvelope(error))

\* the catch branch of the dispatch handler
CatchBranch(error) ==
    IF InstanceOfMcpError(error) THEN Raised(error) ELSE Returned(ErrorEnvelope(error))

\* how the dispatch handler ends once the awaited execute has settled
AfterExecute(outcome) ==
    IF outcome.kind = "resolved" THEN Returned(outcome.value)
    ELSE CatchBranch(outcome.error)

\* a default case that throws a plain Error
DefaultCasePlainError(name) == CatchBranch(PlainError(<<"Unknown tool: ", name>>))

\* how the dispatch handler ends in the default case of the switch
DefaultCase(name) == CatchBranch(McpError(MethodNotFound, <<"Unknown tool: ", name>>))

NoOutcome == [kind |-> "none"]
NoDispatch == [none |-> TRUE]
NoList == [none |-> TRUE]
\* process.exitCode: no exit yet, or the code passed to process.exit
Running == <<>>
Exited(code) == <<code>>

(***************************************************************************)
(* Initial states                                                          *)
(***************************************************************************)
NoService == [none |-> TRUE]
NoTools == [none |-> TRUE]
NoServer ==
    [created |-> FALSE, capabilities |-> {}, handlers |-> {}, onerror |-> FALSE,
     transport |-> "none"]

InitWith(bs, es, fs) ==
    /\ build \in bs
    /\ env \in es
    /\ file \in fs
    /\ pc = "loadConfig"
    /\ loaded = NotLoaded
    /\ thrown = NoError
    /\ service = NoService
    /\ tools = NoTools
    /\ server = NoServer
    /\ sigint = 0
    /\ warmup = "none"
    /\ console = <<>>
    /\ inflight = EmptyBag
    /\ last = NoDispatch
    /\ listed = NoList
    /\ closing = "no"
    /\ exitCode = Running

\* every environment and every configuration file
InitConfig == InitWith(Builds, Envs, Files)

\* the deployments served: a configuration file is in place, and the
\* environment either names the domain and the token or names neither
ServeEnvs == { [TP_DOMAIN |-> "acme", TP_TOKEN |-> "tok"],
               [TP_DOMAIN |-> Undefined, TP_TOKEN |-> Undefined] }
ServeFiles ==
    { [kind |-> "json",
       value |-> [json |-> "object",
                  config |-> [domain |-> "file.example",
                              credentials |-> [token |-> "filetok"]]]] }

Init == InitWith(Builds, ServeEnvs, ServeFiles)

(***************************************************************************)
(* The constructor, statement by statement                                 *)
(***************************************************************************)
\* a constructor that logs a configuration failure and carries on
CtorLoadConfigSwallowed ==
    /\ pc = "loadConfig"
    /\ LET r == loadConfig(build, env, file)
       IN /\ loaded' = r
          /\ console' = console \o r.logged
    /\ pc' = "service"
    /\ UNCHANGED <<build, env, file, thrown, service, tools, server, sigint, warmup,
                   inflight, last, listed, closing, exitCode>>

\* const config = loadConfig()
CtorLoadConfig ==
    /\ pc = "loadConfig"
    /\ LET r == loadConfig(build, env, file)
       IN /\ loaded' = r
          /\ console' = console \o r.logged
          /\ IF r.ok
             THEN /\ pc' = "service"
                  /\ thrown' = thrown
             ELSE /\ pc' = "threw"
                  /\ thrown' = r.error
    /\ UNCHANGED <<build, env, file, service, tools, server, sigint, warmup,
                   inflight, last, listed, closing, exitCode>>

\* a constructor that starts the warm-up as soon as the handle exists
CtorServiceThenWarmup ==
    /\ pc = "service"
    /\ service' = [config |-> loaded.config]
    /\ warmup' = "pending"
    /\ pc' = "tools"
    /\ UNCHANGED <<build, env, file, loaded, thrown, tools, server, sigint,
                   console, inflight, last, listed, closing, exitCode>>

\* this.service = new TPService(config)
CtorService ==
    /\ pc = "service"
    /\ service' = [config |-> loaded.config]
    /\ pc' = "tools"
    /\ UNCHANGED <<build, env, file, loaded, thrown, tools, server, sigint, warmup,
                   console, inflight, last, listed, closing, exitCode>>

\* this.tools = { search: new SearchTool(this.service), ... }
CtorTools ==
    /\ pc = "tools"
    /\ tools' = [k \in ToolKeys |-> [class |-> ToolClass(k), service |-> service]]
    /\ pc' = "server"
    /\ UNCHANGED <<build, env, file, loaded, thrown, service, server, sigint, warmup,
                   console, inflight, last, listed, closing, exitCode>>

\* this.server = new Server({...}, { capabilities: { tools: {...} } })
CtorServer ==
    /\ pc = "server"
    /\ server' = [NoServer EXCEPT !.created = TRUE, !.capabilities = CapabilityNames]
    /\ pc' = "setupHandlers"
    /\ UNCHANGED <<build, env, file, loaded, thrown, service, tools, sigint, warmup,
                   console, inflight, last, listed, closing, exitCode>>

\* this.setupHandlers()
CtorSetupHandlers ==
    /\ pc = "setupHandlers"
    /\ server' = [server EXCEPT !.handlers = {"ListTools", "CallTool"}]
    /\ pc' = "onerror"
    /\ UNCHANGED <<build, env, file, loaded, thrown, service, tools, sigint, warmup,
                   console, inflight, last, listed, closing, exitCode>>

\* this.server.onerror = ...
CtorOnError ==
    /\ pc = "onerror"
    /\ server' = [server EXCEPT !.onerror = TRUE]
    /\ pc' = "sigint"
    /\ UNCHANGED <<build, env, file, loaded, thrown, service, tools, sigint, warmup,
                   console, inflight, last, listed, closing, exitCode>>

\* process.on('SIGINT', ...)
CtorSigint ==
    /\ pc = "sigint"
    /\ sigint' = sigint + 1
    /\ pc' = "initializeCache"
    /\ UNCHANGED <<build, env, file, loaded, thrown, service, tools, server, warmup,
                   console, inflight, last, listed, closing, exitCode>>

CacheErrorLine == <<"Cache initialization error:">>

\* what initializeCache does when service.initializeEntityTypeCache() has failed
CacheFailed ==
    /\ warmup' = "failed"
    /\ console' = Append(console, CacheErrorLine)

\* this.initializeCache(), not awaited: the call to initializeEntityTypeCache
\* either throws at once (caught inside initializeCache) or leaves a pending promise
CtorInitializeCache ==
    /\ pc = "initializeCache"
    /\ \/ /\ warmup' = "pending"
          /\ console' = console
       \/ CacheFailed
    /\ pc' = "constructed"
    /\ UNCHANGED <<build, env, file, loaded, thrown, service, tools, server, sigint,
                   inflight, last, listed, closing, exitCode>>

\* a warm-up whose failure ends the process
WarmupSettleFatal ==
    /\ pc = "constructed"
    /\ exitCode = Running
    /\ warmup = "pending"
    /\ \/ /\ warmup' = "ok"
          /\ console' = console
          /\ exitCode' = exitCode
       \/ /\ CacheFailed
          /\ exitCode' = Exited(1)
    /\ UNCHANGED <<build, env, file, pc, loaded, thrown, service, tools, server,
                   sigint, inflight, last, listed, closing>>

\* the promise of initializeEntityTypeCache() settles
WarmupSettle ==
    /\ pc = "constructed"
    /\ exitCode = Running
    /\ warmup = "pending"
    /\ \/ /\ warmup' = "ok"
          /\ console' = console
       \/ CacheFailed
    /\ UNCHANGED <<build, env, file, pc, loaded, thrown, service, tools, server,
                   sigint, inflight, last, listed, closing, exitCode>>

(***************************************************************************)
(* Serving                                                                 *)
(***************************************************************************)
ReadyLine == <<"Target Process MCP server running on stdio">>

\* run(): connect the transport, then write the readiness line
Run ==
    /\ pc = "constructed"
    /\ exitCode = Running
    /\ closing = "no"
    /\ server.transport = "none"
    /\ server' = [server EXCEPT !.transport = "connected"]
    /\ console' = Append(console, ReadyLine)
    /\ UNCHANGED <<build, env, file, pc, loaded, thrown, service, tools, sigint,
                   warmup, inflight, last, listed, closing, exitCode>>

\* a server that takes requests only once the warm-up has settled
ServingOnceWarm ==
    /\ pc = "constructed"
    /\ exitCode = Running
    /\ closing = "no"
    /\ server.transport = "connected"
    /\ warmup # "pending"

\* requests reach the handlers: constructed, connected, not shutting down
Serving ==
    /\ pc = "constructed"
    /\ exitCode = Running
    /\ closing = "no"
    /\ server.transport = "connected"

\* the ListToolsRequestSchema handler
ListTools ==
    /\ Serving
    /\ "ListTools" \in server.handlers
    /\ listed' = [response |-> ListToolsResponse, warmup |-> warmup]
    /\ UNCHANGED <<build, env, file, pc, loaded, thrown, service, tools, server,
                   sigint, warmup, console, inflight, last, closing, exitCode>>

Completed(name, args, invoked, outcome, result) ==
    [name |-> name, arguments |-> args, invoked |-> invoked, outcome |-> outcome,
     result |-> result, warmup |-> warmup]

\* the CallToolRequestSchema handler up to its first suspension: the switch
\* either calls execute of one tool and awaits it, or throws in the default case
CallTool(name, args) ==
    /\ Serving
    /\ "CallTool" \in server.handlers
    /\ IF SwitchCase(name) = "default"
       THEN /\ last' = Completed(name, args, <<>>, NoOutcome, DefaultCase(name))
            /\ inflight' = inflight
       ELSE /\ BagCardinality(inflight) < MaxInflight
            /\ inflight' = inflight (+)
                  SetToBag({[name |-> name, arguments |-> args,
                             tool |-> tools[SwitchCase(name)].class,
                             passed |-> args]})
            /\ last' = last
    /\ UNCHANGED <<build, env, file, pc, loaded, thrown, service, tools, server,
                   sigint, warmup, console, listed, closing, exitCode>>

\* a handler whose failure abandons the other suspended dispatches
ExecuteSettleAbandonsOthers(r, outcome) ==
    /\ pc = "constructed"
    /\ exitCode = Running
    /\ r \in BagToSet(inflight)
    /\ inflight' = IF outcome.kind = "rejected" THEN EmptyBag
                   ELSE inflight (-) SetToBag({r})
    /\ last' = Completed(r.name, r.arguments,
                         <<[tool |-> r.tool, arguments |-> r.passed]>>,
                         outcome, AfterExecute(outcome))
    /\ UNCHANGED <<build, env, file, pc, loaded, thrown, service, tools, server,
                   sigint, warmup, console, listed, closing, exitCode>>

\* the awaited execute settles and the handler runs to its end
ExecuteSettle(r, outcome) ==
    /\ pc = "constructed"
    /\ exitCode = Running
    /\ r \in BagToSet(inflight)
    /\ inflight' = inflight (-) SetToBag({r})
    /\ last' = Completed(r.name, r.arguments,
                         <<[tool |-> r.tool, arguments |-> r.passed]>>,
                         outcome, AfterExecute(outcome))
    /\ UNCHANGED <<build, env, file, pc, loaded, thrown, service, tools, server,
                   sigint, warmup, console, listed, closing, exitCode>>

(***************************************************************************)
(* Shutdown                                                                *)
(***************************************************************************)
\* a listener that exits without awaiting the close it started
SigintExitsAtOnce ==
    /\ pc = "constructed"
    /\ exitCode = Running
    /\ sigint > 0
    /\ closing \in {"no", "failed"}
    /\ closing' = "closing"
    /\ exitCode' = Exited(0)
    /\ UNCHANGED <<build, env, file, pc, loaded, thrown, service, tools, server,
                   sigint, warmup, console, inflight, last, listed>>

\* SIGINT is delivered (for the first time, or again after a listener run that
\* ended without exit): the listener starts this.server.close()
Sigint ==
    /\ pc = "constructed"
    /\ exitCode = Running
    /\ sigint > 0
    /\ closing \in {"no", "failed"}
    /\ closing' = "closing"
    /\ UNCHANGED <<build, env, file, pc, loaded, thrown, service, tools, server,
                   sigint, warmup, console, inflight, last, listed, exitCode>>

\* the close completes and the listener calls process.exit(0)
CloseDone ==
    /\ closing = "closing"
    /\ exitCode = Running
    /\ closing' = "closed"
    /\ server' = [server EXCEPT !.transport = "closed"]
    /\ exitCode' = Exited(0)
    /\ UNCHANGED <<build, env, file, pc, loaded, thrown, service, tools, sigint,
                   warmup, console, inflight, last, listed>>

\* the close rejects: the listener ends at the await with a rejected promise
\* that nothing handles, and process.exit(0) is not reached.  The runtime then
\* either ends the process with code 1 (unhandled rejections throw) or lets it
\* run on (they are only reported)
CloseFailed ==
    /\ closing = "closing"
    /\ exitCode = Running
    /\ closing' = "failed"
    /\ \/ exitCode' = Exited(1)
       \/ exitCode' = exitCode
    /\ UNCHANGED <<build, env, file, pc, loaded, thrown, service, tools, server,
                   sigint, warmup, console, inflight, last, listed>>

(***************************************************************************)
(* Specifications                                                          *)
(***************************************************************************)
Constructor ==
    \/ CtorLoadConfig
    \/ CtorService
    \/ CtorTools
    \/ CtorServer
    \/ CtorSetupHandlers
    \/ CtorOnError
    \/ CtorSigint
    \/ CtorInitializeCache

NextConfig ==
    \/ Constructor
    \/ WarmupSettle

Next ==
    \/ Constructor
    \/ WarmupSettle
    \/ Run
    \/ ListTools
    \/ \E name \in RequestNames, args \in RequestArguments : CallTool(name, args)
    \/ \E r \in BagToSet(inflight), outcome \in ToolOutcomes : ExecuteSettle(r, outcome)
    \/ Sigint
    \/ CloseDone
    \/ CloseFailed

\* the whole server, for the deployments of Init
Spec == Init /\ [][Next]_vars

\* configuration resolution and construction, for every environment and file
SpecConfig == InitConfig /\ [][NextConfig]_vars

\* the whole server on an event loop that lets a started close settle
SpecLive == Spec /\ WF_vars(CloseDone \/ CloseFailed)

(***************************************************************************)
(* Dispatch and error normalisation                                        *)
(***************************************************************************)
IsErrorEnvelope(result) ==
    /\ result.kind = "returned"
    /\ "isError" \in DOMAIN result.payload
    /\ result.payload.isError

\* the message of a thrown value: its message field when it has one, its string
\* form otherwise
FailureMessage(e) == IF "message" \in DOMAIN e THEN e.message ELSE StringOf(e)

\* C1: a dispatch whose name is not one of the five registered identifiers ends
\* by raising a McpError with code MethodNotFound whose message carries the name;
\* it returns no error envelope, and no tool's execute is invoked for it (neither
\* by the completed dispatch nor by one still suspended).
C1_UnknownToolIsMethodNotFound ==
    /\ \A r \in BagToSet(inflight) : r.name \in CapabilityNames
    /\ (last # NoDispatch /\ last.name \notin CapabilityNames) =>
          /\ last.result.kind = "raised"
          /\ InstanceOfMcpError(last.result.error)
          /\ last.result.error.code = MethodNotFound
          /\ Contains(last.result.error.message, <<last.name>>)
          /\ ~IsErrorEnvelope(last.result)
          /\ last.invoked = <<>>

C1_Witness ==
    /\ last # NoDispatch
    /\ last.name = "delete_entity"
    /\ last.result.kind = "raised"

\* C2: a dispatch of a registered name whose execute rejected with a value that is
\* not a McpError resolves with a payload that has isError: true and exactly one
\* text content item, whose text contains the failure's message.
C2_ToolFailureIsEnvelopeWithMessage ==
    (/\ last # NoDispatch
     /\ last.outcome.kind = "rejected"
     /\ ~InstanceOfMcpError(last.outcome.error)) =>
        /\ last.result.kind = "returned"
        /\ IsErrorEnvelope(last.result)
        /\ Len(last.result.payload.content) = 1
        /\ last.result.payload.content[1].type = "text"
        /\ Contains(last.result.payload.content[1].text,
                    FailureMessage(last.outcome.error))

\* C3: every completed dispatch ended in exactly one way, raised or returned.  A
\* McpError thrown by a tool is raised as it is, same code and same message; any
\* other failure, and every success, is returned; whatever is raised is a McpError.
C3_RaisedOrReturned ==
    last # NoDispatch =>
        /\ last.result.kind \in {"raised", "returned"}
        /\ (last.outcome.kind = "rejected" /\ InstanceOfMcpError(last.outcome.error)) =>
              /\ last.result.kind = "raised"
              /\ last.result.error.code = last.outcome.error.code
              /\ last.result.error.message = last.outcome.error.message
              /\ last.result.error = last.outcome.error
        /\ (last.outcome.kind = "rejected" /\ ~InstanceOfMcpError(last.outcome.error)) =>
              last.result.kind = "returned"
        /\ last.outcome.kind = "resolved" => last.result.kind = "returned"
        /\ last.result.kind = "raised" => InstanceOfMcpError(last.result.error)

C3_Witness ==
    /\ last # NoDispatch
    /\ last.outcome.kind = "rejected"
    /\ InstanceOfMcpError(last.outcome.error)
    /\ last.result = Raised(last.outcome.error)

(***************************************************************************)
(* Background warm-up                                                      *)
(***************************************************************************)
\* the outcome a dispatch has by its name and its tool's outcome alone
OutcomeOf(name, outcome) ==
    IF SwitchCase(name) = "default" THEN DefaultCase(name) ELSE AfterExecute(outcome)

\* C4: a failed warm-up is logged and nothing else: the constructor has completed
\* without throwing, the process exits only once a SIGINT handler's close has settled,
\* no response carries the failure, and a discovery or dispatch answered after the
\* failure has the outcome its name and its tool's outcome give in any warm-up state.
C4_WarmupFailureOnlyLogged ==
    /\ warmup = "failed" =>
          /\ pc = "constructed"
          /\ thrown = NoError
          /\ Contains(console, <<CacheErrorLine>>)
          /\ exitCode # Running => closing \in {"closed", "failed"}
    /\ (last # NoDispatch /\ last.warmup = "failed") =>
          /\ last.result = OutcomeOf(last.name, last.outcome)
          /\ last.result.kind = "returned" =>
                \A i \in 1..Len(last.result.payload.content) :
                    ~Contains(last.result.payload.content[i].text, CacheErrorLine)
          /\ last.result.kind = "raised" =>
                ~Contains(last.result.error.message, CacheErrorLine)
    /\ (listed # NoList /\ listed.warmup = "failed") =>
          listed.response = ListToolsResponse

C4_Witness ==
    /\ warmup = "failed"
    /\ exitCode = Running
    /\ last # NoDispatch
    /\ last.warmup = "failed"
    /\ last.outcome.kind = "resolved"
    /\ last.result = Returned(ToolResult)
    /\ listed # NoList
    /\ listed.warmup = "failed"

(***************************************************************************)
(* Configuration resolution                                                *)
(***************************************************************************)
EnvComplete == Truthy(env.TP_DOMAIN) /\ Truthy(env.TP_TOKEN)

\* C5: with TP_DOMAIN and TP_TOKEN both non-empty, loadConfig returns exactly
\* {domain: TP_DOMAIN, credentials: {token: TP_TOKEN}} and makes no filesystem call,
\* whatever is at the configuration file's path.
C5_EnvPairReturnedVerbatim ==
    (loaded # NotLoaded /\ EnvComplete) =>
        /\ loaded.ok
        /\ loaded.config = [domain |-> env.TP_DOMAIN,
                            credentials |-> [token |-> env.TP_TOKEN]]
        /\ loaded.fs = <<>>

C5_Witness ==
    /\ loaded # NotLoaded
    /\ build = "server.ts"
    /\ env.TP_DOMAIN = "acme"
    /\ env.TP_TOKEN = "tok"
    /\ file.kind = "json"
    /\ file.value # JsonNull
    /\ TryBlockError(file) = NoError
    /\ loaded.config.domain = "acme"
    /\ loaded.config.credentials.token = "tok"

\* C6: when TP_DOMAIN or TP_TOKEN is missing or empty, loadConfig checks for the
\* configuration file; when the file is missing too, it throws a McpError whose
\* message names both the environment variables and the configuration file.
C6_FallsBackToFile ==
    (loaded # NotLoaded /\ ~EnvComplete) =>
        /\ Len(loaded.fs) >= 1
        /\ loaded.fs[1] = "existsSync"
        /\ file.kind = "missing" =>
              /\ ~loaded.ok
              /\ InstanceOfMcpError(loaded.error)
              /\ Contains(loaded.error.message, EnvRemedy)
              /\ Contains(loaded.error.message, FileRemedy)

\* the three failures of the file path: no file, a file that does not parse, a
\* file that parses and holds no credentials.token
FailureClass(f) ==
    CASE f.kind = "missing" -> "missing"
      [] f.kind = "malformed" -> "malformed"
      [] f.kind = "json" /\ f.value = JsonNull -> "no token"
      [] f.kind = "json" /\ f.value # JsonNull
           /\ (f.value.config.credentials = NoCredentials
               \/ ~Truthy(f.value.config.credentials.token)) -> "no token"
      [] OTHER -> "other"

FileFailures == {"missing", "malformed", "no token"}

\* C7: in the file path of src/src/server.ts, a missing file, a file that does not
\* parse and a file without credentials.token each make loadConfig throw; the
\* message thrown differs from the message of every file of another of these three
\* kinds, and the message for a file without the token names the token requirement.
C7_FileFailuresDistinct ==
    (/\ loaded # NotLoaded
     /\ build = "server.ts"
     /\ ~EnvComplete
     /\ FailureClass(file) \in FileFailures) =>
        /\ ~loaded.ok
        /\ InstanceOfMcpError(loaded.error)
        /\ \A f \in Files :
              (FailureClass(f) \in FileFailures /\ FailureClass(f) # FailureClass(file))
                 => loadConfigFile(env, f).error.message # loaded.error.message
        /\ FailureClass(file) = "no token" =>
              Contains(loaded.error.message, TokenRequirement)

\* C8: whenever the Backend Service Handle exists, the configuration it was built
\* from has a non-empty domain and a non-empty token.
C8_HandleConfigNonEmpty ==
    service # NoService =>
        /\ Truthy(service.config.domain)
        /\ Truthy(service.config.credentials.token)

\* C9: when loadConfig fails, the constructor throws that McpError (InternalError)
\* with no handle, no tool and no server object created, no handler registered, no
\* SIGINT listener installed and no warm-up started, and it stays so.
C9_ConfigFailureAbortsConstruction ==
    (loaded # NotLoaded /\ ~loaded.ok) =>
        /\ pc = "threw"
        /\ thrown = loaded.error
        /\ InstanceOfMcpError(thrown)
        /\ thrown.code = InternalError
        /\ service = NoService
        /\ tools = NoTools
        /\ server = NoServer
        /\ server.handlers = {}
        /\ sigint = 0
        /\ warmup = "none"

C9_Witness ==
    /\ pc = "threw"
    /\ file.kind = "missing"
    /\ env.TP_DOMAIN = Undefined
    /\ env.TP_TOKEN = Undefined
    /\ InstanceOfMcpError(thrown)

(***************************************************************************)
(* Discovery                                                               *)
(***************************************************************************)
ToolOrder ==
    <<"SearchTool", "GetEntityTool", "CreateEntityTool", "UpdateEntityTool",
      "InspectObjectTool">>

\* C10: every discovery response holds exactly five descriptors, those of the
\* search, get, create, update and inspect tools in that order, in every warm-up
\* state and whatever dispatches have completed or are suspended.
C10_DiscoveryFixed ==
    listed # NoList =>
        /\ Len(listed.response.tools) = 5
        /\ \A i \in 1..5 : listed.response.tools[i] = getDefinition(ToolOrder[i])

C10_Witness ==
    /\ listed # NoList
    /\ listed.warmup = "failed"
    /\ Len(listed.response.tools) = 5
    /\ last # NoDispatch
    /\ inflight # EmptyBag

(***************************************************************************)
(* Successful dispatch                                                     *)
(***************************************************************************)
\* the tool class each registered name stands for
RegisteredTool(name) ==
    CASE name = "search_entities" -> "SearchTool"
      [] name = "get_entity" -> "GetEntityTool"
      [] name = "create_entity" -> "CreateEntityTool"
      [] name = "update_entity" -> "UpdateEntityTool"
      [] name = "inspect_object" -> "InspectObjectTool"

\* C11: a dispatch of a registered name whose tool succeeded has invoked execute
\* exactly once, on the tool registered under that name and on no other, with the
\* request's arguments as they came, and has returned the tool's result as it is;
\* a dispatch still suspended has likewise called only its own tool with its own
\* arguments.
C11_SuccessReturnedVerbatim ==
    /\ \A r \in BagToSet(inflight) :
          /\ r.tool = RegisteredTool(r.name)
          /\ r.passed = r.arguments
    /\ (last # NoDispatch /\ last.outcome.kind = "resolved") =>
          /\ last.name \in CapabilityNames
          /\ Len(last.invoked) = 1
          /\ last.invoked[1].tool = RegisteredTool(last.name)
          /\ last.invoked[1].arguments = last.arguments
          /\ last.result = Returned(last.outcome.value)
          /\ last.result.payload = ToolResult
          /\ ~IsErrorEnvelope(last.result)

C11_Witness ==
    /\ last # NoDispatch
    /\ last.name = "get_entity"
    /\ last.arguments = "{id: 42}"
    /\ last.outcome.kind = "resolved"
    /\ last.invoked = <<[tool |-> "GetEntityTool", arguments |-> "{id: 42}"]>>
    /\ last.result = Returned(ToolResult)

C13_SigintLeadsToExit == (closing = "closing") ~> (exitCode # Running)

(***************************************************************************)
(* Requests while the warm-up is pending                                   *)
(***************************************************************************)
\* C14: nothing waits for the warm-up.  In every state in which the server is
\* connected and not shutting down, whatever the warm-up state, a discovery request
\* and a dispatch of every name can be taken at once, and every suspended dispatch
\* can complete with every tool outcome; and a completed dispatch has the outcome
\* its name and its tool's outcome give, whatever the warm-up state it completed in.
C14_WarmupNeverAwaited ==
    /\ (/\ pc = "constructed"
        /\ exitCode = Running
        /\ closing = "no"
        /\ server.transport = "connected") =>
          /\ ENABLED ListTools
          /\ \A name \in RequestNames, args \in RequestArguments :
                (name \in CapabilityNames => BagCardinality(inflight) < MaxInflight)
                   => ENABLED CallTool(name, args)
    /\ (pc = "constructed" /\ exitCode = Running) =>
          \A r \in BagToSet(inflight), outcome \in ToolOutcomes :
              ENABLED ExecuteSettle(r, outcome)
    /\ last # NoDispatch =>
          /\ last.warmup \in {"pending", "ok", "failed"}
          /\ last.result = OutcomeOf(last.name, last.outcome)

C14_Witness ==
    /\ pc = "constructed"
    /\ warmup = "pending"
    /\ last # NoDispatch
    /\ last.warmup = "pending"
    /\ last.outcome.kind = "resolved"
    /\ last.result = Returned(ToolResult)
    /\ listed # NoList
    /\ listed.warmup = "pending"

(***************************************************************************)
(* Order of construction                                                   *)
(***************************************************************************)
\* how often line occurs in the console
RECURSIVE Occurrences(_, _)
Occurrences(lines, line) ==
    IF lines = <<>> THEN 0
    ELSE (IF Head(lines) = line THEN 1 ELSE 0) + Occurrences(Tail(lines), line)

\* C15: the constructor's effects appear in one order: configuration, handle, the
\* five tools, the server object with its five capability flags, the two handlers,
\* the error sink, one SIGINT listener, and last the warm-up.  The warm-up exists
\* only with all the others in place, it is started once (a settled warm-up never
\* becomes pending again and its failure is logged at most once), and nothing that
\* was put in place is taken away.
C15_ConstructionOrder ==
    /\ [](service # NoService => (loaded # NotLoaded /\ loaded.ok
                                   /\ service.config = loaded.config))
    /\ [](tools # NoTools =>
            /\ service # NoService
            /\ DOMAIN tools = ToolKeys
            /\ \A k \in ToolKeys : tools[k].service = service)
    /\ [](server.created => (tools # NoTools /\ server.capabilities = CapabilityNames))
    /\ [](server.handlers # {} =>
            (server.created /\ server.handlers = {"ListTools", "CallTool"}))
    /\ [](server.onerror => server.handlers # {})
    /\ [](sigint > 0 => (server.onerror /\ sigint = 1))
    /\ [](warmup # "none" => (sigint = 1 /\ pc = "constructed"))
    /\ [](pc = "constructed" => warmup # "none")
    /\ [](Occurrences(console, CacheErrorLine) <= 1)
    /\ [][/\ warmup # "none" => warmup' # "none"
          /\ warmup \in {"ok", "failed"} => warmup' = warmup
          /\ service # NoService => service' = service
          /\ tools # NoTools => tools' = tools
          /\ server.created => server'.created
          /\ server.handlers # {} => server'.handlers = server.handlers
          /\ sigint' >= sigint]_vars

C15_Witness ==
    /\ pc = "constructed"
    /\ warmup = "pending"
    /\ sigint = 1
    /\ server.onerror
    /\ server.handlers = {"ListTools", "CallTool"}
    /\ tools # NoTools
    /\ service # NoService

(***************************************************************************)
(* No state shared between requests                                        *)
(***************************************************************************)
\* C16: once the server is constructed no step changes the tool registry, the
\* handle, the registered handlers or the capabilities; every step leaves the
\* suspended dispatches as they are, but for the one it starts or completes; every
\* completed dispatch has the outcome its own name and its own tool's outcome give;
\* and whatever completed before and however, each dispatch still suspended can
\* complete with every outcome of its tool.
C16_NoCrossRequestState ==
    /\ [][pc = "constructed" =>
             /\ tools' = tools
             /\ service' = service
             /\ server'.handlers = server.handlers
             /\ server'.capabilities = server.capabilities]_vars
    /\ [][\/ inflight' = inflight
          \/ \E r \in BagToSet(inflight) :
                /\ inflight' = inflight (-) SetToBag({r})
                /\ last'.name = r.name
                /\ last'.arguments = r.arguments
          \/ \E r \in BagToSet(inflight') : inflight = inflight' (-) SetToBag({r})]_vars
    /\ [](last # NoDispatch => last.result = OutcomeOf(last.name, last.outcome))
    /\ []((pc = "constructed" /\ exitCode = Running) =>
            \A r \in BagToSet(inflight), outcome \in ToolOutcomes :
                ENABLED ExecuteSettle(r, outcome))

C16_Witness ==
    /\ BagCardinality(inflight) = 2
    /\ last # NoDispatch
    /\ last.outcome.kind = "rejected"
    /\ last.result.kind = "raised"

(***************************************************************************)
(* The text of the error envelope                                          *)
(***************************************************************************)
\* C17: the text of an error envelope is "Target Process API error: " followed by
\* the failure's message field when the thrown value has one, and by its string
\* form only when it has none, for every kind of thrown value.
C17_MessageFieldPreferred ==
    (/\ last # NoDispatch
     /\ last.outcome.kind = "rejected"
     /\ IsErrorEnvelope(last.result)) =>
        last.result.payload.content[1].text =
            <<"Target Process API error: ">>
            \o (IF "message" \in DOMAIN last.outcome.error
                THEN last.outcome.error.message
                ELSE StringOf(last.outcome.error))

(***************************************************************************)
(* Partial environment                                                     *)
(***************************************************************************)
\* C18: with exactly one of TP_DOMAIN and TP_TOKEN non-empty and a configuration
\* file that parses and holds a token, loadConfig succeeds and returns the file's
\* content, no field of it taken from or replaced by the environment.
C18_PartialEnvUsesFile ==
    (/\ loaded # NotLoaded
     /\ Truthy(env.TP_DOMAIN) # Truthy(env.TP_TOKEN)
     /\ file.kind = "json"
     /\ TryBlockError(file) = NoError) =>
        /\ loaded.ok
        /\ loaded.config = file.value.config
        /\ loaded.fs = <<"existsSync", "readFileSync">>

====
